---- MODULE Spec2Model ----
(***************************************************************************)
(* TursoFaster: the one-shot catalog import (scripts/import-convex-data.ts), *)
(* the search query, getUser and the cached read queries of                *)
(* src/lib/queries.ts, and the image-prefetch route, as state machines.    *)
(*                                                                         *)
(* Strings that the code concatenates or pattern-matches are sequences of  *)
(* one-character strings; a record keeps the fields some operation reads   *)
(* (image_url, description and price are copied through and never read).   *)
(***************************************************************************)
EXTENDS Integers, Sequences, FiniteSets, TLC

VARIABLES
    env,            \* process.env: which of the two store settings are present
    pc,             \* position of main(): start, read, insert, awaitInsert,
                    \* awaitSelect, finally, exited
    phase,          \* the import function main() is in (index into MainOrder, 0 before)
    data,           \* `data` of the running import function (records read)
    toInsert,       \* `...ToInsert` of the running import function
    i,              \* loop index of the batch loop (0-based, as in the code)
    inflight,       \* the batch handed to db.insert() and not yet settled
    store,          \* the target store: one row sequence per table
    collectionMap,  \* external_id -> collections.id, as returned by importCollections
    subcollectionMap, \* external_id -> subcollections.id
    warnings,       \* console.warn calls so far
    log,            \* "Inserted batch ..." progress lines so far
    completed,      \* import functions that have returned, in order
    error,          \* what was thrown: none, env, json, store
    exitCode,       \* process exit status (-1 while running)
    opens,          \* createClient() calls
    closes,         \* client.close() calls
    storeCalls,     \* statements sent to the store
    source,         \* the records read from each input file so far
    batchSize,      \* the two batch-size constants of the import script
    searchTerm,     \* the argument of getSearchResults
    searchTerms,    \* `searchTerms` of getSearchResults
    spc,            \* getSearchResults: idle, or which definition has returned
    whereCondition, \* the LIKE patterns of the WHERE clause, joined by AND
    queries,        \* statements getSearchResults sent to the store
    results,        \* the product names in the rows getSearchResults returned
    sessionCookie,  \* the "session" cookie of the request getUser runs in
    now,            \* the time of the call, `new Date()`
    users,          \* the ids of the rows of the users table
    user,           \* what getUser gave its caller
    procEnv,        \* process.env as the prefetch route reads it
    request,        \* the request to the prefetch route: host header and path
    upstream,       \* what fetching and parsing the page gives
    fetched,        \* the URLs the prefetch route has fetched
    response,       \* the response of the prefetch route
    nodeEnv,        \* process.env.NODE_ENV when src/lib/queries.ts is loaded
    clock,          \* seconds since the server started
    cache,          \* the entries the cached queries have stored
    calls,          \* calls of cached queries so far
    answer          \* how the last call of a cached query was answered

importVars == <<env, pc, phase, data, toInsert, i, inflight, collectionMap,
                subcollectionMap, warnings, log, completed, error, exitCode,
                opens, closes, storeCalls, source, batchSize>>

searchVars == <<searchTerm, searchTerms, spc, whereCondition, queries, results>>

\* The state of the web application's functions.
userVars == <<sessionCookie, now, users, user>>

prefetchVars == <<procEnv, request, upstream, fetched, response>>

cacheVars == <<nodeEnv, clock, cache, calls, answer>>

appVars == <<searchVars, userVars, prefetchVars, cacheVars>>

vars == <<importVars, store, appVars>>

----------------------------------------------------------------------------
(* Bounds *)

\* Records per input file.
MaxRecords == 3
\* Records over all five input files of one run.
MaxTotal == 4
\* Batch sizes and row counts the batch loop is checked for on its own.
MaxBatchSize == 3
MaxBatchRows == 4
\* Characters in a search string.
MaxInputLen == 5
\* BATCH_SIZE (import-convex-data.ts:10) is 1000 in the source; scaled so that
\* an import of MaxRecords records takes more than one batch.
BATCH_SIZE == 2
\* PRODUCT_BATCH_SIZE (import-convex-data.ts:11), scaled likewise.
PRODUCT_BATCH_SIZE == 2

ExtIds == {1, 2}
Slugs == {<<"a">>, <<"b">>}
Names == {<<"n">>}
ProductSlugs == {<<"p">>, <<"q">>}

----------------------------------------------------------------------------
(* Generic helpers *)

Min(a, b) == IF a < b THEN a ELSE b

\* Mutant of Slice: the end index taken as inclusive.
SliceInclusive(seq, from, to) == SubSeq(seq, from + 1, Min(to + 1, Len(seq)))

\* Array.prototype.slice(from, to) on a 0-based array held as a 1-based sequence.
Slice(seq, from, to) == SubSeq(seq, from + 1, Min(to, Len(seq)))

\* Math.ceil(n / b)
Ceil(n, b) == (n + b - 1) \div b

SeqsUpTo(S, n) == UNION {[1..k -> S] : k \in 0..n}

Range(f) == {f[x] : x \in DOMAIN f}

Perms(seq) ==
    {p \in [1..Len(seq) -> Range(seq)] :
        \E b \in [1..Len(seq) -> 1..Len(seq)] :
            /\ \A x, y \in 1..Len(seq) : x # y => b[x] # b[y]
            /\ \A x \in 1..Len(seq) : p[x] = seq[b[x]]}

\* Map.prototype.get with a missing key read as 0: every caller only tests the
\* result for truthiness (undefined and 0 are both falsy) before using it.
MapGet(m, k) == IF k \in DOMAIN m THEN m[k] ELSE 0

\* Map.prototype.set
MapSet(m, k, v) == [x \in (DOMAIN m) \cup {k} |-> IF x = k THEN v ELSE m[x]]

EmptyMap == [x \in {} |-> 0]

----------------------------------------------------------------------------
(* The input files: one JSON object per non-blank line *)

ConvexCollection == [external_id : ExtIds, name : Names, slug : Slugs]
ConvexCategory == [collection_id : ExtIds, name : Names, slug : Slugs]
ConvexSubcollection == [external_id : ExtIds, category_slug : Slugs, name : Names]
ConvexSubcategory == [subcollection_id : ExtIds, name : Names, slug : Slugs]
ConvexProduct == [name : Names, slug : ProductSlugs, subcategory_slug : Slugs]

\* Mutant of MainOrder: subcollections imported before categories.
MainOrderSwapped ==
    <<"collections", "subcollections", "categories", "subcategories", "products">>

\* The order in which main() calls the import functions.
MainOrder ==
    <<"collections", "categories", "subcollections", "subcategories", "products">>

\* The record type each import function reads from its file.
SourceRecords(name) ==
    CASE name = "collections" -> ConvexCollection
      [] name = "categories" -> ConvexCategory
      [] name = "subcollections" -> ConvexSubcollection
      [] name = "subcategories" -> ConvexSubcategory
      [] OTHER -> ConvexProduct

\* The import functions that read their rows back and return a remapping.
Remapped == {"collections", "subcollections"}

BatchSizeOf(name) ==
    IF name = "products" THEN batchSize.PRODUCT_BATCH_SIZE ELSE batchSize.BATCH_SIZE

----------------------------------------------------------------------------
(* The rows each import function prepares *)

collectionsToInsert(d) ==
    [k \in 1..Len(d) |-> [name |-> d[k].name, slug |-> d[k].slug]]

subcollectionsToInsert(d) ==
    [k \in 1..Len(d) |-> [name |-> d[k].name, category_slug |-> d[k].category_slug]]

productsToInsert(d) ==
    [k \in 1..Len(d) |->
        [slug |-> d[k].slug, name |-> d[k].name,
         subcategory_slug |-> d[k].subcategory_slug]]

\* Mutant of Unresolved: the null check left out, every record kept.
NeverUnresolved(map, extId) == FALSE

\* `if (!collectionId)`: the parent's external id has no usable mapping.
Unresolved(map, extId) == MapGet(map, extId) = 0

\* The positions of the records .map() turns into null (one console.warn each).
UnresolvedAt(d, map, field) ==
    {k \in 1..Len(d) : Unresolved(map, d[k][field])}

RECURSIVE KeepResolved(_, _, _, _)
\* .map(...).filter(item => item !== null): the resolved records, in order, with
\* the parent's external id rewritten to the store's id.
KeepResolved(d, map, field, k) ==
    IF k > Len(d) THEN <<>>
    ELSE IF Unresolved(map, d[k][field]) THEN KeepResolved(d, map, field, k + 1)
    ELSE <<[slug |-> d[k].slug, name |-> d[k].name,
            parent |-> MapGet(map, d[k][field])]>>
         \o KeepResolved(d, map, field, k + 1)

categoriesToInsert(d, map) ==
    LET kept == KeepResolved(d, map, "collection_id", 1)
    IN [k \in 1..Len(kept) |->
           [slug |-> kept[k].slug, name |-> kept[k].name,
            collection_id |-> kept[k].parent]]

subcategoriesToInsert(d, map) ==
    LET kept == KeepResolved(d, map, "subcollection_id", 1)
    IN [k \in 1..Len(kept) |->
           [slug |-> kept[k].slug, name |-> kept[k].name,
            subcollection_id |-> kept[k].parent]]

ToInsert(name, d) ==
    CASE name = "collections" -> collectionsToInsert(d)
      [] name = "categories" -> categoriesToInsert(d, collectionMap)
      [] name = "subcollections" -> subcollectionsToInsert(d)
      [] name = "subcategories" -> subcategoriesToInsert(d, subcollectionMap)
      [] OTHER -> productsToInsert(d)

\* The console.warn calls of the .map() callback, in record order.
RECURSIVE WarnSeq(_, _, _, _)
WarnSeq(name, what, S, k) ==
    IF S = {} THEN <<>>
    ELSE IF k \in S
         THEN <<[entity |-> name, what |-> what, index |-> k]>>
              \o WarnSeq(name, what, S \ {k}, k + 1)
         ELSE WarnSeq(name, what, S, k + 1)

ResolveWarnings(name, d) ==
    CASE name = "categories" ->
            WarnSeq(name, "unresolved",
                    UnresolvedAt(d, collectionMap, "collection_id"), 1)
      [] name = "subcategories" ->
            WarnSeq(name, "unresolved",
                    UnresolvedAt(d, subcollectionMap, "subcollection_id"), 1)
      [] OTHER -> <<>>

----------------------------------------------------------------------------
(* The store *)

EmptyStore == [t \in Range(MainOrder) |-> <<>>]

\* db.insert(table).values(batch): the rows are appended in the order given; the
\* tables with an integer primary key get the next ids.
InsertRows(table, name, batch) ==
    IF name \in Remapped
    THEN table \o [k \in 1..Len(batch) |->
                      IF name = "collections"
                      THEN [id |-> Len(table) + k, name |-> batch[k].name,
                            slug |-> batch[k].slug]
                      ELSE [id |-> Len(table) + k, name |-> batch[k].name,
                            category_slug |-> batch[k].category_slug]]
    ELSE table \o batch

\* The tables whose rows carry a slug: the data model declares slugs unique.
Slugged == {"collections", "categories", "subcategories", "products"}

\* Whether the store takes the batch: a statement that would leave two rows of a
\* slugged table with the same slug is refused as a whole.
Accepts(table, name, batch) ==
    LET all == table \o batch
    IN name \in Slugged =>
          \A x, y \in 1..Len(all) : x # y => all[x].slug # all[y].slug

----------------------------------------------------------------------------
(* The key remapper *)

\* `${name}::${category_slug}`
CompositeKey(r) == r.name \o <<":", ":">> \o r.category_slug

\* The natural key an import function matches rows by.
NaturalKey(name, r) == IF name = "collections" THEN r.slug ELSE CompositeKey(r)

RECURSIVE KeyToIdMap(_, _)
\* for (const dbItem of all...) map.set(key, dbItem.id)
KeyToIdMap(name, rows) ==
    IF rows = <<>> THEN EmptyMap
    ELSE LET last == rows[Len(rows)]
         IN MapSet(KeyToIdMap(name, SubSeq(rows, 1, Len(rows) - 1)),
                   NaturalKey(name, last), last.id)

RECURSIVE ExternalIdMapByDbId(_, _, _)
\* Mutant of ExternalIdMap: the entry keyed by the store's id instead of the
\* record's external id.
ExternalIdMapByDbId(name, d, keyToId) ==
    IF d = <<>> THEN EmptyMap
    ELSE LET last == d[Len(d)]
             rest == ExternalIdMapByDbId(name, SubSeq(d, 1, Len(d) - 1), keyToId)
             dbId == MapGet(keyToId, NaturalKey(name, last))
         IN IF dbId # 0 THEN MapSet(rest, dbId, dbId) ELSE rest

RECURSIVE ExternalIdMap(_, _, _)
\* for (const convexItem of data) { if (dbId) map.set(external_id, dbId) ... }
ExternalIdMap(name, d, keyToId) ==
    IF d = <<>> THEN EmptyMap
    ELSE LET last == d[Len(d)]
             rest == ExternalIdMap(name, SubSeq(d, 1, Len(d) - 1), keyToId)
             dbId == MapGet(keyToId, NaturalKey(name, last))
         IN IF dbId # 0 THEN MapSet(rest, last.external_id, dbId) ELSE rest

\* The positions of the source records whose key is not among the rows read back.
NotFoundAt(name, d, keyToId) ==
    {k \in 1..Len(d) : MapGet(keyToId, NaturalKey(name, d[k])) = 0}

----------------------------------------------------------------------------
(* main() and the five import functions *)

\* No search has been made.
SearchIdle ==
    /\ searchTerm = <<>>
    /\ searchTerms = <<>>
    /\ spc = "idle"
    /\ whereCondition = <<>>
    /\ queries = 0
    /\ results = {}

\* getUser has not been called.
UserIdle ==
    /\ sessionCookie = [kind |-> "missing"]
    /\ now = 0
    /\ users = {}
    /\ user = [kind |-> "pending"]

\* The prefetch route has not been requested.
PrefetchIdle ==
    /\ procEnv = [NODE_ENV |-> "production", VERCEL_ENV |-> "production",
                  VERCEL_URL |-> "", VERCEL_PROJECT_PRODUCTION_URL |-> "",
                  VERCEL_BRANCH_URL |-> ""]
    /\ request = [host |-> "", rest |-> <<>>]
    /\ upstream = [kind |-> "network-error"]
    /\ fetched = <<>>
    /\ response = [kind |-> "pending"]

\* No cached query has been called.
CacheIdle ==
    /\ nodeEnv = "production"
    /\ clock = 0
    /\ cache = {}
    /\ calls = 0
    /\ answer = [kind |-> "none"]

\* No function of the web application has been called.
AppIdle ==
    /\ SearchIdle
    /\ UserIdle
    /\ PrefetchIdle
    /\ CacheIdle

Init ==
    /\ env \in [url : BOOLEAN, token : BOOLEAN]
    /\ pc = "start"
    /\ phase = 0
    /\ data = <<>>
    /\ toInsert = <<>>
    /\ i = 0
    /\ inflight = <<>>
    /\ store = EmptyStore
    /\ collectionMap = EmptyMap
    /\ subcollectionMap = EmptyMap
    /\ warnings = <<>>
    /\ log = <<>>
    /\ completed = <<>>
    /\ error = "none"
    /\ exitCode = -1
    /\ opens = 0
    /\ closes = 0
    /\ storeCalls = 0
    /\ source = EmptyStore
    /\ batchSize = [BATCH_SIZE |-> BATCH_SIZE, PRODUCT_BATCH_SIZE |-> PRODUCT_BATCH_SIZE]
    /\ AppIdle

PhaseName == MainOrder[phase]

\* Records read so far, over all files.
NumRead ==
    Len(source.collections) + Len(source.categories) + Len(source.subcollections)
    + Len(source.subcategories) + Len(source.products)

\* Mutant of Catch: the error is logged and swallowed, the finally block runs and
\* the process ends with status 0.
CatchSwallow(kind) ==
    /\ error' = kind
    /\ exitCode' = 0
    /\ pc' = "exited"
    /\ closes' = closes + 1

\* catch (error) { console.error(...); process.exit(1); }: the process ends inside
\* the catch block, so the finally block's client.close() is never reached.
Catch(kind) ==
    /\ error' = kind
    /\ exitCode' = 1
    /\ pc' = "exited"
    /\ UNCHANGED closes

\* Where control goes once the batch loop index is j: back into the loop, on to
\* the read-back of a remapping import, or out of the import function.
AfterBatch(j) ==
    IF j < Len(toInsert') THEN "insert"
    ELSE IF PhaseName \in Remapped THEN "select"
    ELSE IF phase = Len(MainOrder) THEN "finally"
    ELSE "read"

\* The import function returns without a read-back once its loop is over.
ReturnsAt(j) == j >= Len(toInsert') /\ PhaseName \notin Remapped

Return ==
    /\ completed' = Append(completed, PhaseName)
    /\ phase' = phase + 1

\* main(), lines 310-324: the configuration check, createClient and drizzle. The
\* throw is outside the try block; main() is called without a handler, so the
\* rejection ends the process with status 1.
Start ==
    /\ pc = "start"
    /\ IF ~env.url \/ ~env.token
       THEN /\ error' = "env"
            /\ exitCode' = 1
            /\ pc' = "exited"
            /\ UNCHANGED <<opens, phase>>
       ELSE /\ opens' = opens + 1
            /\ phase' = 1
            /\ pc' = "read"
            /\ UNCHANGED <<error, exitCode>>
    /\ UNCHANGED <<env, data, toInsert, i, inflight, store, collectionMap,
                   subcollectionMap, warnings, log, completed, closes,
                   storeCalls, source, batchSize, appVars>>

\* readJSONL / readJSONLStream of the running import function, and the .map()
\* (and .filter()) that prepares its rows.
Read ==
    /\ pc = "read"
    /\ \E d \in SeqsUpTo(SourceRecords(PhaseName), Min(MaxRecords, MaxTotal - NumRead)) :
          /\ data' = d
          /\ source' = [source EXCEPT ![PhaseName] = d]
          /\ toInsert' = ToInsert(PhaseName, d)
          /\ warnings' = warnings \o ResolveWarnings(PhaseName, d)
    /\ i' = 0
    /\ pc' = AfterBatch(0)
    /\ IF ReturnsAt(0) THEN Return ELSE UNCHANGED <<completed, phase>>
    /\ UNCHANGED <<env, inflight, store, collectionMap, subcollectionMap, log,
                   error, exitCode, opens, closes, storeCalls, batchSize,
                   appVars>>

\* JSON.parse throws on a malformed line.
ReadMalformed ==
    /\ pc = "read"
    /\ Catch("json")
    /\ UNCHANGED <<env, phase, data, toInsert, i, inflight, store, collectionMap,
                   subcollectionMap, warnings, log, completed, opens,
                   storeCalls, source, batchSize, appVars>>

\* const batch = toInsert.slice(i, i + BATCH_SIZE); db.insert(table).values(batch)
IssueInsert ==
    /\ pc = "insert"
    /\ inflight' = Slice(toInsert, i, i + BatchSizeOf(PhaseName))
    /\ storeCalls' = storeCalls + 1
    /\ pc' = "awaitInsert"
    /\ UNCHANGED <<env, phase, data, toInsert, i, store, collectionMap,
                   subcollectionMap, warnings, log, completed, error, exitCode,
                   opens, closes, source, batchSize, appVars>>

\* The progress line after a batch; only importProducts reports the running count.
ProgressLine(name, j, n, size) ==
    [entity |-> name,
     batch |-> (j \div BatchSizeOf(name)) + 1,
     of |-> Ceil(n, BatchSizeOf(name)),
     count |-> IF name = "products" THEN j + size ELSE -1]

\* The awaited insert resolves: the batch is in the store, the progress line is
\* printed and the loop steps by the batch size.
InsertResolved ==
    /\ pc = "awaitInsert"
    /\ Accepts(store[PhaseName], PhaseName, inflight)
    /\ store' = [store EXCEPT ![PhaseName] = InsertRows(@, PhaseName, inflight)]
    /\ log' = Append(log, ProgressLine(PhaseName, i, Len(toInsert), Len(inflight)))
    /\ inflight' = <<>>
    /\ i' = i + BatchSizeOf(PhaseName)
    /\ UNCHANGED toInsert
    /\ pc' = AfterBatch(i')
    /\ IF ReturnsAt(i') THEN Return ELSE UNCHANGED <<completed, phase>>
    /\ UNCHANGED <<env, data, collectionMap, subcollectionMap, warnings, error,
                   exitCode, opens, closes, storeCalls, source, batchSize, appVars>>

\* Mutant of InsertRejected: the failed batch is sent again.
InsertRejectedRetry ==
    /\ pc = "awaitInsert"
    /\ inflight' = <<>>
    /\ error' = "store"
    /\ pc' = "insert"
    /\ UNCHANGED <<env, phase, data, toInsert, i, store, collectionMap,
                   subcollectionMap, warnings, log, completed, exitCode, opens,
                   closes, storeCalls, source, batchSize, appVars>>

\* The awaited insert rejects (store unreachable, statement refused).
InsertRejected ==
    /\ pc = "awaitInsert"
    /\ inflight' = <<>>
    /\ Catch("store")
    /\ UNCHANGED <<env, phase, data, toInsert, i, store, collectionMap,
                   subcollectionMap, warnings, log, completed, opens,
                   storeCalls, source, batchSize, appVars>>

\* db.select().from(table) of importCollections / importSubcollections.
IssueSelect ==
    /\ pc = "select"
    /\ storeCalls' = storeCalls + 1
    /\ pc' = "awaitSelect"
    /\ UNCHANGED <<env, phase, data, toInsert, i, inflight, store, collectionMap,
                   subcollectionMap, warnings, log, completed, error, exitCode,
                   opens, closes, source, batchSize, appVars>>

\* The remapping built from the rows read back, and its warnings.
RemapWarnings(name, d, rows) ==
    WarnSeq(name, "notfound", NotFoundAt(name, d, KeyToIdMap(name, rows)), 1)

Remapping(name, d, rows) == ExternalIdMap(name, d, KeyToIdMap(name, rows))

\* The read-back resolves with the table's rows (no ORDER BY: in any order); the
\* remapping is built and the import function returns it.
SelectResolved ==
    /\ pc = "awaitSelect"
    /\ \E rows \in Perms(store[PhaseName]) :
          /\ warnings' = warnings \o RemapWarnings(PhaseName, data, rows)
          /\ IF PhaseName = "collections"
             THEN /\ collectionMap' = Remapping(PhaseName, data, rows)
                  /\ UNCHANGED subcollectionMap
             ELSE /\ subcollectionMap' = Remapping(PhaseName, data, rows)
                  /\ UNCHANGED collectionMap
    /\ Return
    /\ pc' = "read"
    /\ UNCHANGED <<env, data, toInsert, i, inflight, store, log, error, exitCode,
                   opens, closes, storeCalls, source, batchSize, appVars>>

SelectRejected ==
    /\ pc = "awaitSelect"
    /\ Catch("store")
    /\ UNCHANGED <<env, phase, data, toInsert, i, inflight, store, collectionMap,
                   subcollectionMap, warnings, log, completed, opens,
                   storeCalls, source, batchSize, appVars>>

\* The try block ends normally: finally { client.close() }, main() resolves and
\* the process ends with status 0.
Finally ==
    /\ pc = "finally"
    /\ closes' = closes + 1
    /\ exitCode' = 0
    /\ pc' = "exited"
    /\ UNCHANGED <<env, phase, data, toInsert, i, inflight, store, collectionMap,
                   subcollectionMap, warnings, log, completed, error, opens,
                   storeCalls, source, batchSize, appVars>>

Next ==
    \/ Start
    \/ Read
    \/ ReadMalformed
    \/ IssueInsert
    \/ InsertResolved
    \/ InsertRejected
    \/ IssueSelect
    \/ SelectResolved
    \/ SelectRejected
    \/ Finally

Spec == Init /\ [][Next]_vars

----------------------------------------------------------------------------
(* The batch loop of importProducts, for every batch size *)

BatchSlugs == {<<"p">>, <<"q">>, <<"r">>, <<"s">>}

BatchRecords == [name : Names, slug : BatchSlugs, subcategory_slug : {<<"a">>}]

\* importProducts at the top of its batch loop: the four earlier files were empty
\* (their imports returned after the two read-backs), the products file held d.
InitBatch ==
    /\ \E d \in SeqsUpTo(BatchRecords, MaxBatchRows) :
          /\ data = d
          /\ toInsert = productsToInsert(d)
          /\ source = [EmptyStore EXCEPT !.products = d]
          /\ pc = IF d = <<>> THEN "finally" ELSE "insert"
          /\ phase = IF d = <<>> THEN 6 ELSE 5
          /\ completed = IF d = <<>> THEN MainOrder ELSE SubSeq(MainOrder, 1, 4)
    /\ \E b \in 1..MaxBatchSize :
          batchSize = [BATCH_SIZE |-> BATCH_SIZE, PRODUCT_BATCH_SIZE |-> b]
    /\ env = [url |-> TRUE, token |-> TRUE]
    /\ i = 0
    /\ inflight = <<>>
    /\ store = EmptyStore
    /\ collectionMap = EmptyMap
    /\ subcollectionMap = EmptyMap
    /\ warnings = <<>>
    /\ log = <<>>
    /\ error = "none"
    /\ exitCode = -1
    /\ opens = 1
    /\ closes = 0
    /\ storeCalls = 2
    /\ AppIdle

NextBatch ==
    \/ IssueInsert
    \/ InsertResolved
    \/ InsertRejected
    \/ Finally

SpecBatch == InitBatch /\ [][NextBatch]_vars

----------------------------------------------------------------------------
(* getSearchResults: both definitions in src/lib/queries.ts *)

Letters == {"a", "b", "A"}
Whitespace == {" ", "\t"}
SearchChars == Letters \cup Whitespace \cup {"%"}

\* ASCII case folding, as NOCASE and LOWER() do it.
Lower(c) == IF c = "A" THEN "a" ELSE c

RECURSIVE TrimStart(_)
TrimStart(str) ==
    IF str # <<>> /\ Head(str) \in Whitespace THEN TrimStart(Tail(str)) ELSE str

RECURSIVE TrimEnd(_)
TrimEnd(str) ==
    IF str # <<>> /\ str[Len(str)] \in Whitespace
    THEN TrimEnd(SubSeq(str, 1, Len(str) - 1))
    ELSE str

\* String.prototype.trim
Trim(str) == TrimEnd(TrimStart(str))

RECURSIVE SplitFrom(_, _, _)
\* String.prototype.split(" "): the pieces between single space characters;
\* cur is the piece being read.
SplitFrom(str, k, cur) ==
    IF k > Len(str) THEN <<cur>>
    ELSE IF str[k] = " " THEN <<cur>> \o SplitFrom(str, k + 1, <<>>)
    ELSE SplitFrom(str, k + 1, Append(cur, str[k]))

Split(str) == SplitFrom(str, 1, <<>>)

\* trimmedTerm.split(" ").filter(term => term.trim() !== "").map(term => term.trim())
SearchTerms(trimmedTerm) ==
    LET kept == SelectSeq(Split(trimmedTerm), LAMBDA t : Trim(t) # <<>>)
    IN [k \in 1..Len(kept) |-> Trim(kept[k])]

\* What string concatenation makes of searchTerms[0] when the array is empty.
Undefined == <<"u", "n", "d", "e", "f", "i", "n", "e", "d">>

ElementOrUndefined(terms, k) == IF k \in 1..Len(terms) THEN terms[k] ELSE Undefined

\* term.length >= 3 ? term + "%" : "%" + term + "%"
PrefixOrContains(term) ==
    IF Len(term) >= 3 THEN term \o <<"%">> ELSE <<"%">> \o term \o <<"%">>

\* "%" + term + "%"
Contains(term) == <<"%">> \o term \o <<"%">>

\* The WHERE clause of the first definition (lines 187-212): one LIKE pattern per
\* term, chained with AND.
WhereCondition1(terms) ==
    IF Len(terms) = 1
    THEN <<PrefixOrContains(terms[1])>>
    ELSE [k \in 1..Len(terms) |-> PrefixOrContains(terms[k])]

\* The WHERE clause of the second definition (lines 421-433).
WhereCondition2(trimmedTerm, terms) ==
    IF Len(terms) = 1
    THEN <<Contains(trimmedTerm)>>
    ELSE <<Contains(ElementOrUndefined(terms, 1))>>
         \o [k \in 1..(Len(terms) - 1) |-> Contains(terms[k + 1])]

RECURSIVE Like(_, _)
\* SQLite's LIKE on folded text: % is any run of characters, _ any one character.
Like(pattern, text) ==
    IF pattern = <<>> THEN text = <<>>
    ELSE IF Head(pattern) = "%"
         THEN Like(Tail(pattern), text) \/ (text # <<>> /\ Like(pattern, Tail(text)))
    ELSE IF text = <<>> THEN FALSE
    ELSE /\ Head(pattern) = "_" \/ Lower(Head(pattern)) = Lower(Head(text))
         /\ Like(Tail(pattern), Tail(text))

\* name COLLATE NOCASE LIKE p1 AND name COLLATE NOCASE LIKE p2 AND ...
Holds(condition, name) == \A k \in 1..Len(condition) : Like(condition[k], name)

\* A store that holds a small catalog: three products under one subcategory and
\* one product whose subcategory does not exist.
CatalogStore ==
    [collections |-> <<[id |-> 1, name |-> <<"n">>, slug |-> <<"a">>]>>,
     categories |-> <<[slug |-> <<"a">>, name |-> <<"n">>, collection_id |-> 1]>>,
     subcollections |-> <<[id |-> 1, name |-> <<"n">>, category_slug |-> <<"a">>]>>,
     subcategories |-> <<[slug |-> <<"a">>, name |-> <<"n">>, subcollection_id |-> 1]>>,
     products |->
        <<[slug |-> <<"p">>, name |-> <<"A", "a", "b">>, subcategory_slug |-> <<"a">>],
          [slug |-> <<"q">>, name |-> <<"b", "a", "a", "b">>, subcategory_slug |-> <<"a">>],
          [slug |-> <<"r">>, name |-> <<"a", "b">>, subcategory_slug |-> <<"a">>],
          [slug |-> <<"s">>, name |-> <<"a", "b">>, subcategory_slug |-> <<"b">>]>>]

\* The three inner joins: the product's subcategory, its subcollection and its
\* category all exist.
Joined(p) ==
    \E sc \in Range(store.subcategories) :
        /\ p.subcategory_slug = sc.slug
        /\ \E sl \in Range(store.subcollections) :
              /\ sc.subcollection_id = sl.id
              /\ \E c \in Range(store.categories) : sl.category_slug = c.slug

\* select ... where(condition).limit(5) with the joins: the slugs of the products
\* in the rows returned (any five when more match).
QueryResults(condition) ==
    LET hits == {p.slug : p \in {q \in Range(store.products) :
                                    Holds(condition, q.name) /\ Joined(q)}}
    IN {R \in SUBSET hits : Cardinality(R) = Min(5, Cardinality(hits))}

ImportIdle ==
    /\ env = [url |-> TRUE, token |-> TRUE]
    /\ pc = "start"
    /\ phase = 0
    /\ data = <<>>
    /\ toInsert = <<>>
    /\ i = 0
    /\ inflight = <<>>
    /\ collectionMap = EmptyMap
    /\ subcollectionMap = EmptyMap
    /\ warnings = <<>>
    /\ log = <<>>
    /\ completed = <<>>
    /\ error = "none"
    /\ exitCode = -1
    /\ opens = 0
    /\ closes = 0
    /\ storeCalls = 0
    /\ source = EmptyStore
    /\ batchSize = [BATCH_SIZE |-> BATCH_SIZE, PRODUCT_BATCH_SIZE |-> PRODUCT_BATCH_SIZE]

InitSearch ==
    /\ ImportIdle
    /\ store = CatalogStore
    /\ searchTerm \in SeqsUpTo(SearchChars, MaxInputLen)
    /\ searchTerms = <<>>
    /\ spc = "idle"
    /\ whereCondition = <<>>
    /\ queries = 0
    /\ results = {}
    /\ UserIdle
    /\ PrefetchIdle
    /\ CacheIdle

\* getSearchResults, first definition (lines 171-237).
getSearchResults ==
    /\ spc = "idle"
    /\ LET trimmedTerm == Trim(searchTerm)
       IN /\ searchTerms' = SearchTerms(trimmedTerm)
          /\ IF Len(searchTerms') = 0
             THEN /\ results' = {}
                  /\ UNCHANGED <<whereCondition, queries>>
             ELSE /\ whereCondition' = WhereCondition1(searchTerms')
                  /\ queries' = queries + 1
                  /\ results' \in QueryResults(whereCondition')
    /\ spc' = "returned1"
    /\ UNCHANGED <<importVars, store, searchTerm, userVars, prefetchVars, cacheVars>>

\* getSearchResults, second definition (lines 409-457): no early return.
getSearchResults2 ==
    /\ spc = "idle"
    /\ LET trimmedTerm == Trim(searchTerm)
       IN /\ searchTerms' = SearchTerms(trimmedTerm)
          /\ whereCondition' = WhereCondition2(trimmedTerm, searchTerms')
          /\ queries' = queries + 1
          /\ results' \in QueryResults(whereCondition')
    /\ spc' = "returned2"
    /\ UNCHANGED <<importVars, store, searchTerm, userVars, prefetchVars, cacheVars>>

NextSearch ==
    \/ getSearchResults
    \/ getSearchResults2

SpecSearch == InitSearch /\ [][NextSearch]_vars

----------------------------------------------------------------------------
(* getUser (src/lib/queries.ts lines 15-45) *)

\* Times run from 0 to MaxTime; user ids from 1 to MaxUserId.
MaxTime == 2
MaxUserId == 2

UserIds == 1..MaxUserId

\* new Date(x) of a value that is no date: an Invalid Date, whose time value is
\* NaN and which compares false with everything.
InvalidDate == -1

\* sessionData.user: absent, or an object whose id is a number or something else.
SessionUsers ==
    {[kind |-> "absent"], [kind |-> "string"]} \cup {[kind |-> "number", id |-> n] : n \in UserIds}

\* The value of a non-empty session cookie: a token that is well formed or not,
\* whose signature verifies or not, and the payload it carries.
Tokens ==
    [wellFormed : BOOLEAN, verifies : BOOLEAN, user : SessionUsers,
     expires : {InvalidDate} \cup (0..MaxTime)]

\* (await cookies()).get("session"): no cookie, a cookie with an empty value, or
\* a cookie carrying a token.
SessionCookies ==
    {[kind |-> "missing"], [kind |-> "empty"]} \cup {[kind |-> "token", value |-> t] : t \in Tokens}

\* verifyToken (src/lib/session, not in the source tree given): an invalid token
\* yields no session data rather than an error; a valid one yields its payload.
verifyToken(value) ==
    IF value.wellFormed /\ value.verifies
    THEN [data |-> TRUE, user |-> value.user, expires |-> value.expires]
    ELSE [data |-> FALSE]

\* Mutant of Expired: the comparison left out.
ExpiredNever(expires, t) == FALSE

\* new Date(sessionData.expires) < new Date()
Expired(expires, t) == expires # InvalidDate /\ expires < t

\* What getUser returns before it reaches the store, or "select" when it goes on
\* to query the users table (lines 16-32).
BeforeSelect ==
    IF sessionCookie.kind \in {"missing", "empty"} THEN "null"
    ELSE LET sessionData == verifyToken(sessionCookie.value)
         IN IF \/ ~sessionData.data
               \/ sessionData.user.kind = "absent"
               \/ sessionData.user.kind # "number"
            THEN "null"
            ELSE IF Expired(sessionData.expires, now) THEN "null"
            ELSE "select"

InitUser ==
    /\ ImportIdle
    /\ store = EmptyStore
    /\ SearchIdle
    /\ sessionCookie \in SessionCookies
    /\ now \in 0..MaxTime
    /\ users \in SUBSET UserIds
    /\ user = [kind |-> "pending"]
    /\ PrefetchIdle
    /\ CacheIdle

\* getUser, the store answering its query (lines 15-45).
getUser ==
    /\ user.kind = "pending"
    /\ IF BeforeSelect = "null"
       THEN user' = [kind |-> "null"]
       ELSE LET id == sessionCookie.value.user.id
            IN IF id \in users
               THEN user' = [kind |-> "row", id |-> id]
               ELSE user' = [kind |-> "null"]
    /\ UNCHANGED <<importVars, store, searchVars, sessionCookie, now, users, prefetchVars,
                   cacheVars>>

\* getUser, the store rejecting its query: the awaited select throws and nothing
\* in getUser catches it.
getUserSelectRejected ==
    /\ user.kind = "pending"
    /\ BeforeSelect = "select"
    /\ user' = [kind |-> "thrown"]
    /\ UNCHANGED <<importVars, store, searchVars, sessionCookie, now, users, prefetchVars,
                   cacheVars>>

NextUser ==
    \/ getUser
    \/ getUserSelectRejected

SpecUser == InitUser /\ [][NextUser]_vars

----------------------------------------------------------------------------
(* The image-prefetch route (GET, getHostname) *)

\* A page has at most MaxElements elements, a path at most MaxRest segments.
MaxElements == 2
MaxRest == 2

\* A host name that is set, or "" for one that is not (undefined is as falsy).
Hosts == {"", "h"}

ProcEnvs ==
    [NODE_ENV : {"development", "production"}, VERCEL_ENV : {"production", "preview"},
     VERCEL_URL : Hosts, VERCEL_PROJECT_PRODUCTION_URL : Hosts,
     VERCEL_BRANCH_URL : Hosts]

\* a || b
Or(a, b) == IF a # "" THEN a ELSE b

getHostname(e) ==
    IF e.NODE_ENV = "development" THEN "localhost:3000"
    ELSE IF e.VERCEL_URL # "" THEN e.VERCEL_URL
    ELSE IF e.VERCEL_ENV = "production"
         THEN Or(e.VERCEL_PROJECT_PRODUCTION_URL, e.VERCEL_URL)
    ELSE Or(e.VERCEL_BRANCH_URL, e.VERCEL_URL)

Segments == {<<>>, <<"p">>}

Requests == [host : Hosts, rest : SeqsUpTo(Segments, MaxRest)]

RECURSIVE Join(_)
\* rest.join("/")
Join(rest) ==
    IF rest = <<>> THEN <<>>
    ELSE IF Len(rest) = 1 THEN rest[1]
    ELSE rest[1] \o <<"/">> \o Join(Tail(rest))

\* The elements of a page, in document order: an img with or without a src
\* attribute (src is <<>> when the attribute is absent, else <<its value>>),
\* inside <main> or not, or some other element inside <main>.
Elements ==
    [tag : {"img"}, main : BOOLEAN, src : {<<>>, <<"">>, <<"/a.png">>}]
    \cup {[tag |-> "div", main |-> TRUE, src |-> <<>>]}

\* What fetching the page and reading it gives: fetch rejects, the response is
\* not OK, reading or parsing the body throws, or a document.
Upstreams ==
    {[kind |-> "network-error"], [kind |-> "not-ok"], [kind |-> "parse-error"]}
    \cup {[kind |-> "ok", document |-> doc] : doc \in SeqsUpTo(Elements, MaxElements)}

\* (img) => img.src, as a filter: the attribute is there and not empty.
HasSrc(el) == el.src # <<>> /\ el.src[1] # ""

\* Mutant of Images: every img of the page, wherever it is.
ImagesAnywhere(doc) ==
    LET selected == SelectSeq(doc, LAMBDA el : el.tag = "img")
        mapped == [k \in 1..Len(selected) |-> [src |-> selected[k].src]]
    IN SelectSeq(mapped, HasSrc)

\* Array.from(document.querySelectorAll("main img")).map(...).filter(img => img.src)
Images(doc) ==
    LET selected == SelectSeq(doc, LAMBDA el : el.tag = "img" /\ el.main)
        mapped == [k \in 1..Len(selected) |-> [src |-> selected[k].src]]
    IN SelectSeq(mapped, HasSrc)

\* NextResponse.json({ images }, { status }) and whether Cache-Control is set.
Json(images, status, cached) ==
    [kind |-> "json", images |-> images, status |-> status, cacheControl |-> cached]

\* Mutant of Caught: the failure answered with a server error.
CaughtAsServerError == Json(<<>>, 500, FALSE)

\* catch (error) { ...; return NextResponse.json({ images: [] }, { status: 200 }) }
Caught == Json(<<>>, 200, FALSE)

\* fetch(url), response.ok, response.text(), parseHTML and the extraction, with
\* the try block around them (lines 150-180; the same steps at lines 109-140).
FetchAndExtract ==
    IF upstream.kind \in {"network-error", "parse-error"} THEN Caught
    ELSE IF upstream.kind = "not-ok" THEN Json(<<>>, 200, FALSE)
    ELSE Json(Images(upstream.document), 200, TRUE)

InitPrefetch ==
    /\ ImportIdle
    /\ store = EmptyStore
    /\ SearchIdle
    /\ UserIdle
    /\ procEnv \in ProcEnvs
    /\ request \in Requests
    /\ upstream \in Upstreams
    /\ fetched = <<>>
    /\ response = [kind |-> "pending"]
    /\ CacheIdle

\* export async function GET(request, { params })
GET ==
    /\ response.kind = "pending"
    /\ LET schema == IF procEnv.NODE_ENV = "development" THEN "http" ELSE "https"
           host == getHostname(procEnv)
           href == Join(request.rest)
       IN IF host = ""
          THEN IF request.host # "" /\ procEnv.NODE_ENV = "development"
               THEN IF href = <<>>
                    THEN /\ response' = Json(<<>>, 400, FALSE)
                         /\ UNCHANGED fetched
                    ELSE /\ fetched' = Append(fetched, [schema |-> schema,
                                                        host |-> request.host,
                                                        href |-> href])
                         /\ response' = FetchAndExtract
               ELSE /\ response' = Json(<<>>, 500, FALSE)
                    /\ UNCHANGED fetched
          ELSE IF href = <<>>
               THEN /\ response' = Json(<<>>, 400, FALSE)
                    /\ UNCHANGED fetched
               ELSE /\ fetched' = Append(fetched, [schema |-> schema, host |-> host,
                                                   href |-> href])
                    /\ response' = FetchAndExtract
    /\ UNCHANGED <<importVars, store, searchVars, userVars, procEnv, request, upstream,
                   cacheVars>>

NextPrefetch == GET

SpecPrefetch == InitPrefetch /\ [][NextPrefetch]_vars

----------------------------------------------------------------------------
(* The cached read queries of src/lib/queries.ts *)

\* Calls of cached queries in one run.
MaxCalls == 2

Lookups ==
    {"getProductsForSubcategory", "getCollections", "getProductDetails",
     "getSubcategory", "getCategory", "getCollectionDetails"}

Counts == {"getProductCount", "getCategoryProductCount", "getSubcategoryProductCount"}

\* The file defines every query twice (lines 47-237 and lines 285-457).
CachedQueries == [name : Lookups \cup Counts \cup {"getSearchResults"}, definition : {1, 2}]

\* The literal arguments a query is called with.
Args(q) == IF q.name \in {"getCollections", "getProductCount"} THEN {<<>>} ELSE {<<"a">>, <<"b">>}

\* revalidate: false
Disabled == [disabled |-> TRUE]

\* revalidate: <seconds>
Every(seconds) == [disabled |-> FALSE, interval |-> seconds]

\* process.env.NODE_ENV === "development" ? false : seconds
DisabledInDevelopment(e, seconds) == IF e = "development" THEN Disabled ELSE Every(seconds)

\* The revalidate option each query is wrapped with.
Revalidate(q, e) ==
    IF q.definition = 1
    THEN IF q.name \in Lookups THEN DisabledInDevelopment(e, 60 * 60 * 24)
         ELSE IF q.name \in Counts THEN Every(60 * 60 * 24)
         ELSE DisabledInDevelopment(e, 60 * 60 * 2)
    ELSE IF q.name \in Lookups THEN DisabledInDevelopment(e, 60 * 60 * 2)
         ELSE IF q.name \in Counts THEN Every(60 * 60 * 2)
         ELSE Every(60 * 60 * 2)

\* The times at which calls are made.
Instants == {0, 60 * 60 * 2, 60 * 60 * 24}

\* The cache wrapper: an entry answers a call with the same query and arguments
\* while it is younger than the revalidation interval; with revalidation
\* disabled nothing is stored and nothing is answered from the cache.
Fresh(q, arg, rv) ==
    /\ ~rv.disabled
    /\ \E e \in cache : e.query = q /\ e.arg = arg /\ clock - e.at < rv.interval

InitCache ==
    /\ ImportIdle
    /\ store = EmptyStore
    /\ SearchIdle
    /\ UserIdle
    /\ PrefetchIdle
    /\ nodeEnv \in {"development", "production"}
    /\ clock = 0
    /\ cache = {}
    /\ calls = 0
    /\ answer = [kind |-> "none"]

\* A call of the cached query q with argument arg.
Call(q, arg) ==
    /\ calls < MaxCalls
    /\ calls' = calls + 1
    /\ LET rv == Revalidate(q, nodeEnv)
       IN IF Fresh(q, arg, rv)
          THEN /\ answer' = [kind |-> "answered", query |-> q, arg |-> arg,
                             revalidate |-> rv, fromCache |-> TRUE]
               /\ UNCHANGED cache
          ELSE /\ answer' = [kind |-> "answered", query |-> q, arg |-> arg,
                             revalidate |-> rv, fromCache |-> FALSE]
               /\ cache' = IF rv.disabled THEN cache
                           ELSE {e \in cache : ~(e.query = q /\ e.arg = arg)}
                                \cup {[query |-> q, arg |-> arg, at |-> clock]}
    /\ UNCHANGED <<importVars, store, searchVars, userVars, prefetchVars, nodeEnv, clock>>

\* Time passes between calls.
Tick ==
    /\ calls < MaxCalls
    /\ \E t \in Instants : t > clock /\ clock' = t
    /\ UNCHANGED <<importVars, store, searchVars, userVars, prefetchVars, nodeEnv, cache,
                   calls, answer>>

NextCache ==
    \/ \E q \in CachedQueries : \E arg \in Args(q) : Call(q, arg)
    \/ Tick

SpecCache == InitCache /\ [][NextCache]_vars

----------------------------------------------------------------------------
(* Properties of the import *)

Tables == Range(MainOrder)

\* The dependency chain of the data model, parents first.
Chain ==
    <<"collections", "categories", "subcollections", "subcategories", "products">>

ChainIndex(t) == CHOOSE k \in 1..Len(Chain) : Chain[k] = t

\* The declared parent reference of row r of table t names a row in the store.
ParentResolves(t, r) ==
    CASE t = "categories" -> \E c \in Range(store.collections) : c.id = r.collection_id
      [] t = "subcollections" ->
            \E c \in Range(store.categories) : c.slug = r.category_slug
      [] t = "subcategories" ->
            \E c \in Range(store.subcollections) : c.id = r.subcollection_id
      [] t = "products" ->
            \E c \in Range(store.subcategories) : c.slug = r.subcategory_slug
      [] OTHER -> TRUE

\* C1: once the import run has ended (completed or aborted), every row in the
\* store has a parent reference that names a row of the parent table; a product
\* whose subcategory_slug names no subcategory is not in the store.
C1_NoDanglingRows ==
    pc = "exited" =>
        \A t \in Tables : \A r \in Range(store[t]) : ParentResolves(t, r)

\* The rows of the parent table inserted for the source records that carry
\* external id e (source record k of a remapped table is its k-th row).
IdsOfExt(parent, e) ==
    {store[parent][k].id :
        k \in {m \in 1..Len(source[parent]) :
                  m <= Len(store[parent]) /\ source[parent][m].external_id = e}}

RECURSIVE ResolvableFrom(_, _, _, _)
\* The positions, in order, of the child records whose parent's external id is
\* carried by some source record of the parent file.
ResolvableFrom(child, parent, field, k) ==
    IF k > Len(source[child]) THEN <<>>
    ELSE IF \E m \in 1..Len(source[parent]) :
                source[parent][m].external_id = source[child][k][field]
         THEN <<k>> \o ResolvableFrom(child, parent, field, k + 1)
         ELSE ResolvableFrom(child, parent, field, k + 1)

ForeignKeysFaithful(child, parent, field) ==
    LET idx == ResolvableFrom(child, parent, field, 1)
    IN \A j \in 1..Len(store[child]) :
          /\ j <= Len(idx)
          /\ store[child][j].slug = source[child][idx[j]].slug
          /\ store[child][j][field]
                \in IdsOfExt(parent, source[child][idx[j]][field])

\* C2: every category row's collection_id is the id the store gave the collection
\* whose source record carries the category's source collection_id, and every
\* subcategory row's subcollection_id is the id of the subcollection whose source
\* record carries the subcategory's source subcollection_id.
C2_ForeignKeysFaithful ==
    /\ ForeignKeysFaithful("categories", "collections", "collection_id")
    /\ ForeignKeysFaithful("subcategories", "subcollections", "subcollection_id")

\* The console.warn calls made for table t by the resolving .map().
NumUnresolved(t) ==
    Cardinality({k \in 1..Len(warnings) :
                    warnings[k].entity = t /\ warnings[k].what = "unresolved"})

\* Every batch of table t has been written: the import function has returned and
\* the table holds one row per record that was not dropped.
FullyInserted(t) ==
    /\ t \in Range(completed)
    /\ Len(store[t]) = Len(source[t]) - NumUnresolved(t)

\* C3: a step that writes rows of a table happens only when every table earlier
\* in the chain Collection, Category, Subcollection, Subcategory, Product has
\* been fully inserted, and while an insert is in flight main() is waiting for it:
\* the batch is of the running import function and nothing else proceeds.
C3_InsertOrder ==
    [][/\ \A t \in Tables :
             store'[t] # store[t] =>
                /\ pc = "awaitInsert" /\ PhaseName = t
                /\ \A k \in 1..(ChainIndex(t) - 1) : FullyInserted(Chain[k])
       /\ inflight' # <<>> => pc' = "awaitInsert" /\ phase' = phase
       /\ phase' # phase => inflight' = <<>> /\ phase' = phase + 1
      ]_vars

\* A completed run that wrote a subcollection, then a subcategory, then a product.
C3_Witness ==
    /\ pc = "exited" /\ exitCode = 0
    /\ store.subcollections # <<>>
    /\ store.subcategories # <<>>
    /\ store.products # <<>>

\* C5: the step on which a store call fails ends the run with status 1 and leaves
\* the store as it was (the chunks written before stay, nothing is rolled back),
\* sends nothing more to the store (no retry), and no step follows the end of the
\* run (no later chunk of the entity, no chunk of a later entity).
C5_AbortOnFailedChunk ==
    [][/\ pc # "exited"
       /\ (error' = "store" /\ error # "store") =>
             /\ pc' = "exited" /\ exitCode' = 1
             /\ store' = store
             /\ storeCalls' = storeCalls
             /\ completed' = completed
      ]_vars

\* An aborted run whose first chunk is in the store and whose second chunk failed.
C5_Witness ==
    /\ pc = "exited" /\ error = "store"
    /\ \E t \in Tables :
          /\ Len(store[t]) > 0
          /\ Len(store[t]) < Len(toInsert)
          /\ t \notin Range(completed)

\* C6: the run ends with status 0 exactly when all five import functions have
\* returned, and with status 1 exactly when something was thrown: the missing
\* store URL or token (before the client is created or anything is sent to the
\* store), a failed store call, or a malformed line; no status is set earlier.
C6_ExitStatus ==
    /\ pc # "exited" => exitCode = -1 /\ error = "none"
    /\ pc = "exited" =>
          /\ exitCode \in {0, 1}
          /\ exitCode = 0 <=> completed = Chain
          /\ exitCode = 1 <=> error \in {"env", "json", "store"}
          /\ error = "env" <=> (~env.url \/ ~env.token)
          /\ error = "env" => opens = 0 /\ storeCalls = 0 /\ store = EmptyStore

\* A run that completed with rows written, status 0.
C6_Witness ==
    /\ pc = "exited" /\ exitCode = 0 /\ error = "none"
    /\ store.collections # <<>> /\ store.products # <<>>

\* Source record r's natural key is among the rows of table t.
KeyFound(t, r) ==
    \E row \in Range(store[t]) :
        IF t = "collections" THEN row.slug = r.slug
        ELSE row.name = r.name /\ row.category_slug = r.category_slug

\* The ids of the rows of table t that carry the natural key of some source
\* record with external id e.
IdsByKeyOfExt(t, d, e) ==
    {row.id : row \in {x \in Range(store[t]) :
        \E k \in 1..Len(d) :
            /\ d[k].external_id = e
            /\ IF t = "collections" THEN x.slug = d[k].slug
               ELSE x.name = d[k].name /\ x.category_slug = d[k].category_slug}}

\* C7: the read-back that builds a remapping is answered only after every batch
\* of the entity is in the store; the remapping has an entry for exactly the
\* external ids of the source records whose natural key is among the rows, each
\* entry leads to the id of a row with that record's natural key, and every source
\* record whose key is not found gets one warning and no entry.
C7_Remapping ==
    [][(pc = "awaitSelect" /\ pc' = "read") =>
          LET t == PhaseName
              map == IF t = "collections" THEN collectionMap' ELSE subcollectionMap'
              found == {k \in 1..Len(data) : KeyFound(t, data[k])}
              new == SubSeq(warnings', Len(warnings) + 1, Len(warnings'))
          IN /\ t \in Remapped
             /\ inflight = <<>> /\ i >= Len(toInsert)
             /\ Len(store[t]) = Len(data)
             /\ DOMAIN map = {data[k].external_id : k \in found}
             /\ \A e \in DOMAIN map : map[e] \in IdsByKeyOfExt(t, data, e)
             /\ Len(new) = Len(data) - Cardinality(found)
             /\ \A k \in 1..Len(data) :
                   k \notin found =>
                      \E w \in 1..Len(new) :
                          new[w] = [entity |-> t, what |-> "notfound", index |-> k]
      ]_vars

\* importSubcollections has returned a remapping of two subcollections.
C7_Witness ==
    /\ pc = "read" /\ phase = 4
    /\ Cardinality(DOMAIN subcollectionMap) = 2
    /\ Len(store.subcollections) = 2

\* The remapping a resolving import function reads its parents from.
ParentMap(t) == IF t = "categories" THEN collectionMap ELSE subcollectionMap

ParentField(t) == IF t = "categories" THEN "collection_id" ELSE "subcollection_id"

RECURSIVE Subsequence(_, _, _)
\* The members of d at the positions in S, in order.
Subsequence(d, S, k) ==
    IF k > Len(d) THEN <<>>
    ELSE IF k \in S THEN <<d[k]>> \o Subsequence(d, S, k + 1)
    ELSE Subsequence(d, S, k + 1)

\* C8: when importCategories / importSubcategories has read its records, each
\* record whose parent id has no entry in the parent's remapping is left out of
\* the rows to insert and gets exactly one warning, the other records are all
\* kept, in order, and the run goes on: nothing is thrown and the process has not
\* exited.
C8_DropUnresolved ==
    [][(pc = "read" /\ phase' \in {phase, phase + 1} /\ pc' # "exited"
        /\ PhaseName \in {"categories", "subcategories"}) =>
          LET t == PhaseName
              f == ParentField(t)
              dropped == {k \in 1..Len(data') : data'[k][f] \notin DOMAIN ParentMap(t)}
              kept == Subsequence(data', (1..Len(data')) \ dropped, 1)
              new == SubSeq(warnings', Len(warnings) + 1, Len(warnings'))
          IN /\ Len(new) = Cardinality(dropped)
             /\ \A k \in dropped :
                   Cardinality({w \in 1..Len(new) :
                       new[w] = [entity |-> t, what |-> "unresolved", index |-> k]}) = 1
             /\ Len(toInsert') = Len(kept)
             /\ \A j \in 1..Len(kept) :
                   /\ toInsert'[j].slug = kept[j].slug
                   /\ toInsert'[j][f] = ParentMap(t)[kept[j][f]]
             /\ error' = "none" /\ exitCode' = -1
             /\ pc' \in {"insert", "read"}
      ]_vars

\* A run that dropped a category with a warning, inserted another category and
\* went on to import a product and complete.
C8_Witness ==
    /\ pc = "exited" /\ exitCode = 0
    /\ NumUnresolved("categories") = 1
    /\ Len(store.categories) = 1
    /\ Len(store.products) = 1

\* The remapping of table t is injective and faithful: source records with
\* different external ids lead to different rows, and the external id of a source
\* record leads to the row inserted for that record (the k-th record's row is
\* the k-th row of the table).
RemapFaithful(t, map) ==
    LET d == source[t]
    IN /\ \A k, l \in 1..Len(d) :
             (/\ d[k].external_id # d[l].external_id
              /\ d[k].external_id \in DOMAIN map
              /\ d[l].external_id \in DOMAIN map)
                => map[d[k].external_id] # map[d[l].external_id]
       /\ \A k \in 1..Len(d) :
             (\A l \in 1..Len(d) : l # k => d[l].external_id # d[k].external_id)
                => /\ d[k].external_id \in DOMAIN map
                   /\ map[d[k].external_id] = store[t][k].id

\* C16: once importCollections or importSubcollections has returned, its
\* remapping sends different external ids to different rows and every external
\* id to the row inserted for its own source record, also when two
\* subcollections have the same name and category_slug.
C16_RemappingInjectiveFaithful ==
    /\ "collections" \in Range(completed) => RemapFaithful("collections", collectionMap)
    /\ "subcollections" \in Range(completed)
          => RemapFaithful("subcollections", subcollectionMap)

\* C14: a run that opened the store connection has, when the process ends,
\* opened it exactly once and closed it exactly once, whether all phases
\* succeeded or a fatal error aborted the run.
C14_OpenedOnceClosedOnce ==
    (pc = "exited" /\ opens > 0) => (opens = 1 /\ closes = 1)

----------------------------------------------------------------------------
(* Properties of the batch loop *)

----------------------------------------------------------------------------
(* Properties of the search *)

IsBlank(str) == \A k \in 1..Len(str) : str[k] \in {" ", "\t"}

\* C9: a search whose input is empty or all whitespace returns no rows and sends
\* nothing to the store.
C9_BlankSearchNoQuery ==
    (spc # "idle" /\ IsBlank(searchTerm)) => results = {} /\ queries = 0

\* name starts with term, ignoring case.
StartsWith(name, term) ==
    /\ Len(term) <= Len(name)
    /\ \A k \in 1..Len(term) : Lower(name[k]) = Lower(term[k])

\* name contains term somewhere, ignoring case.
ContainsTerm(name, term) ==
    \E off \in 0..(Len(name) - Len(term)) :
        \A k \in 1..Len(term) : Lower(name[off + k]) = Lower(term[k])

TermMatches(name, term) ==
    IF Len(term) >= 3 THEN StartsWith(name, term) ELSE ContainsTerm(name, term)

\* Product names the WHERE clause is tried on.
ProbeNames == SeqsUpTo(Letters, 4)

\* C10: for an input with at least one term, the WHERE clause holds of a product
\* name exactly when every term matches it, ignoring case: a term of three or
\* more characters when the name starts with it, a shorter term when the name
\* contains it.
C10_PrefixOrSubstringPerTerm ==
    LET terms == SearchTerms(Trim(searchTerm))
    IN (spc # "idle" /\ Len(terms) >= 1) =>
          \A name \in ProbeNames :
              Holds(whereCondition, name)
                 <=> \A k \in 1..Len(terms) : TermMatches(name, terms[k])

\* The maximal runs of non-whitespace characters of str from position k on, in
\* order; cur is the run being read.
RECURSIVE RunsFrom(_, _, _)
RunsFrom(str, k, cur) ==
    IF k > Len(str) THEN (IF cur = <<>> THEN <<>> ELSE <<cur>>)
    ELSE IF str[k] \in {" ", "\t"}
         THEN (IF cur = <<>> THEN <<>> ELSE <<cur>>) \o RunsFrom(str, k + 1, <<>>)
    ELSE RunsFrom(str, k + 1, Append(cur, str[k]))

\* C11: the search terms of a search are exactly the maximal non-empty runs of
\* non-whitespace characters of the raw search string, in order (tabs separate
\* terms as spaces do), so no term contains a whitespace character.
C11_TermsAreNonWhitespaceRuns ==
    spc # "idle" =>
        /\ searchTerms = RunsFrom(searchTerm, 1, <<>>)
        /\ \A k \in 1..Len(searchTerms) :
              \A j \in 1..Len(searchTerms[k]) : searchTerms[k][j] \notin {" ", "\t"}

----------------------------------------------------------------------------
(* Properties of getUser *)

\* The session cookie is missing or empty, or its token is malformed or fails
\* verification.
NoValidToken ==
    \/ sessionCookie.kind \in {"missing", "empty"}
    \/ ~sessionCookie.value.wellFormed
    \/ ~sessionCookie.value.verifies

\* The token's expiry is a time before the call.
ExpiryInPast ==
    /\ sessionCookie.kind = "token"
    /\ sessionCookie.value.expires \in 0..MaxTime
    /\ sessionCookie.value.expires < now

----------------------------------------------------------------------------
(* Properties of the image-prefetch route *)

\* C13: when the page was requested and fetching it failed (network error or a
\* response that is not OK) or reading it failed, the route answers with status
\* 200 and an empty image list, never a 5xx status; and every image of a response
\* comes from an img element inside <main> of the page whose src is not empty.
C13_PrefetchSoftFails ==
    response.kind # "pending" =>
        /\ (fetched # <<>> /\ upstream.kind # "ok") =>
              response.status = 200 /\ response.images = <<>>
        /\ \A k \in 1..Len(response.images) :
              /\ response.images[k].src \notin {<<>>, <<"">>}
              /\ fetched # <<>> /\ upstream.kind = "ok"
              /\ \E j \in 1..Len(upstream.document) :
                    /\ upstream.document[j].tag = "img"
                    /\ upstream.document[j].main
                    /\ upstream.document[j].src = response.images[k].src

\* The page was requested and the fetch was rejected.
C13_Witness ==
    /\ response.kind = "json"
    /\ fetched # <<>>
    /\ upstream.kind = "network-error"
    /\ response.status = 200

----------------------------------------------------------------------------
(* Properties of the cached queries *)

\* C15: in development mode every call of a cached query (the lookups, the three
\* product counts and the search) runs with revalidation disabled and is not
\* answered from the cache.
C15_NoCacheInDevelopment ==
    (nodeEnv = "development" /\ answer.kind = "answered") =>
        answer.revalidate.disabled /\ ~answer.fromCache

====
